---- MODULE Spec2Model ----
(***************************************************************************)
(* Spotify mood tracker (src/api): the session/auth guard, the track       *)
(* resolver, the listening-history recorder and the relational store they  *)
(* share, as a state machine over concurrent browser clients.              *)
(*                                                                         *)
(* A client is one browser with its own session cookie and at most one     *)
(* request in flight; two clients may be logged in as the same user.       *)
(* Every request owns a SQLAlchemy session: rows it added but did not yet  *)
(* INSERT (sess_new), rows it INSERTed in its open transaction (sess_tx),  *)
(* and the committed tables (users, tracks, listens) every request reads.  *)
(***************************************************************************)
EXTENDS Integers, Sequences, FiniteSets, Bags, TLC

VARIABLES
    encKeySet,   \* ENCRYPTION_KEY is configured in the environment
    now,         \* datetime.utcnow(), in ticks
    users,       \* table users: sequence of rows, User.id = index
    tracks,      \* table tracks: sequence of rows, Track.id = index
    listens,     \* table listens: bag of committed rows (user_id, track_id, played_at)
    session,     \* per client: the Flask session cookie
    pc,          \* per client: where its request in flight stands
    req,         \* per client: the request in flight (route, user, batch, loop index, ...)
    sess_new,    \* per client: db.session.new, Listen rows added and not yet flushed
    sess_tx,     \* per client: Listen rows flushed in the open transaction
    resp,        \* per client: the response of its last finished request
    glog,        \* per client: what the guard did for its last guarded request (history)
    deezer_calls \* per Spotify track id: Deezer searches issued for it (history)

vars == <<encKeySet, now, users, tracks, listens, session, pc, req,
          sess_new, sess_tx, resp, glog, deezer_calls>>

dbVars == <<users, tracks, listens>>

----------------------------------------------------------------------------
(* Bounds of the model *)

MaxAccounts == 2        \* Spotify accounts that may log in
MaxClock == 1           \* ticks of the clock
MaxLifetime == 1        \* largest expires_in the provider hands out, in ticks
MaxClients == 2         \* browser clients with a request in flight
MaxCatalog == 2         \* distinct Spotify track ids the streaming API returns
MaxPlayedAt == 2        \* distinct played_at instants
MaxBatch == 2           \* items of one recently-played answer
GainBelow == 16         \* the quietest gain of the catalog is -GainBelow
GainAbove == 5          \* the loudest gain of the catalog

Accounts == 1..MaxAccounts
Clients == 1..MaxClients
Lifetimes == 1..MaxLifetime
SpotifyIds == 1..MaxCatalog

\* A naive datetime to the hour.
datetime(year, month, day, hour) ==
    [year |-> year, month |-> month, day |-> day, hour |-> hour]

\* The played_at instants of the plays: hours of 2 May 2024.
PlayedAts == {datetime(2024, 5, 2, h) : h \in 1..MaxPlayedAt}

\* An optional column (NULL or a value) is a sequence of length 0 or 1.
None == <<>>
Some(v) == <<v>>
IsNone(o) == o = <<>>
Val(o) == o[1]

RECURSIVE SeqsUpTo(_, _)
SeqsUpTo(S, n) ==
    IF n = 0 THEN {<<>>}
    ELSE LET shorter == SeqsUpTo(S, n - 1)
         IN  shorter \cup {Append(s, x) : s \in {t \in shorter : Len(t) = n - 1}, x \in S}

----------------------------------------------------------------------------
(* models.py: token encryption *)

\* get_cipher_suite: the Fernet key in use. With ENCRYPTION_KEY unset every call
\* draws a fresh random key, which no other call ever has again.
get_cipher_suite == IF encKeySet THEN "env" ELSE "random"

\* encrypt_token: a ciphertext remembers the key it was made with.
encrypt_token(token) ==
    IF IsNone(token) THEN None
    ELSE Some([key |-> get_cipher_suite, plain |-> Val(token)])

\* Fernet.decrypt raises InvalidToken unless the key is the one that encrypted:
\* two draws of a random key never agree.
DecryptRaises(encrypted_token) ==
    /\ ~IsNone(encrypted_token)
    /\ ~(get_cipher_suite = "env" /\ Val(encrypted_token).key = "env")

\* decrypt_token, when it does not raise.
decrypt_token(encrypted_token) ==
    IF IsNone(encrypted_token) THEN None
    ELSE Some(Val(encrypted_token).plain)

----------------------------------------------------------------------------
(* models.py: User *)

NewUser(spotify_id) ==
    [spotify_id |-> spotify_id, access_token |-> None, refresh_token |-> None,
     token_expires_at |-> None, mood_overrides |-> None]

set_tokens(u, access_token, refresh_token, expires_at) ==
    [u EXCEPT !.access_token = encrypt_token(access_token),
              !.refresh_token = encrypt_token(refresh_token),
              !.token_expires_at = Some(expires_at)]

is_token_expired(u) ==
    IF IsNone(u.token_expires_at) THEN TRUE
    ELSE now >= Val(u.token_expires_at)

\* The tokens the provider issues: opaque strings.
AccessPlain == "access"
RefreshPlain == "refresh"

----------------------------------------------------------------------------
(* The Flask session cookie *)

EmptySession ==
    [user_id |-> 0, token_info |-> FALSE, logged_in |-> FALSE,
     show_about_modal |-> FALSE, nonce |-> FALSE]

\* body: what a rendered page carries (the mood grid of /monthly).
NoResp ==
    [route |-> "none", by |-> "none", status |-> "none", cause |-> "none", saved |-> -1,
     body |-> <<>>]

\* What a request carries besides its route: request.get_json() of /update-mood,
\* request.form of /monthly, request.args of /api/day-songs.
NoInput == [form |-> "-", track_id |-> 0, mood |-> "", year |-> 0, month |-> 0]

NoGlog ==
    [route |-> "none", outcome |-> "none", session_user |-> 0, user_found |-> FALSE,
     was_expired |-> FALSE, refresh |-> "none", client |-> FALSE, invoked |-> FALSE,
     view_user |-> 0, expired_at_invoke |-> FALSE, inp |-> NoInput]

\* No catalog answer: get_or_create_track did not ask.
NoAnswer == [search |-> "none", metrics |-> "-", gain |-> 0]

\* route, user, items, idx, saved_count: the call of save_listening_history.
\* track, created, answer: what the last get_or_create_track returned, whether
\* it stored a row, and the catalog answer it got. early_commits: the Listen rows
\* of this call that a commit inside the loop made durable. again: the call
\* repeats the user and items of this client's previous call, which returned.
\* loaded: the User object the wrapper handed to the view, with the column
\* values its SELECT read.
NoReq ==
    [route |-> "none", user |-> 0, items |-> <<>>, idx |-> 0, saved_count |-> 0,
     track |-> 0, created |-> FALSE, answer |-> NoAnswer, early_commits |-> EmptyBag,
     again |-> FALSE, loaded |-> NewUser(0)]

----------------------------------------------------------------------------
(* database.py: the mood classifier and the mood override store *)

\* classify_mood with the bounds of the buckets inclusive.
classify_mood_InclusiveBounds(gain) ==
    IF IsNone(gain) THEN "Unknown"
    ELSE IF Val(gain) >= 3 THEN "Angry"
    ELSE IF Val(gain) >= 0 THEN "Energetic"
    ELSE IF Val(gain) >= -2 THEN "Happy"
    ELSE IF Val(gain) >= -6 THEN "Chill"
    ELSE IF Val(gain) >= -10 THEN "Calm"
    ELSE IF Val(gain) >= -14 THEN "Sad"
    ELSE "Depressed"

\* classify_mood: track_metrics.get('gain') is None (no gain) or a number.
classify_mood(gain) ==
    IF IsNone(gain) THEN "Unknown"
    ELSE IF Val(gain) > 3 THEN "Angry"
    ELSE IF Val(gain) > 0 THEN "Energetic"
    ELSE IF Val(gain) > -2 THEN "Happy"
    ELSE IF Val(gain) > -6 THEN "Chill"
    ELSE IF Val(gain) > -10 THEN "Calm"
    ELSE IF Val(gain) > -14 THEN "Sad"
    ELSE "Depressed"

get_available_moods ==
    <<"Angry", "Energetic", "Happy", "Chill", "Calm", "Sad", "Depressed">>

Range(f) == {f[i] : i \in DOMAIN f}

\* json.dumps / json.loads of the override dictionary: the text is the set of
\* its "key": "value" members.
json_dumps(d) == {<<k, d[k]>> : k \in DOMAIN d}
json_loads(text) ==
    [k \in {m[1] : m \in text} |-> (CHOOSE m \in text : m[1] = k)[2]]

\* User.get_mood_overrides: {} for a NULL column.
get_mood_overrides(u) ==
    IF IsNone(u.mood_overrides) THEN <<>> ELSE json_loads(Val(u.mood_overrides))

\* set_mood_override with overrides.setdefault(str(track_id), mood): an entry
\* that is already there stays.
set_mood_override_KeepsFirst(u, track_id, mood) ==
    LET overrides == get_mood_overrides(u)
        key == ToString(track_id)
        updated == [k \in DOMAIN overrides \cup {key} |->
                        IF k \in DOMAIN overrides THEN overrides[k] ELSE mood]
    IN  [u EXCEPT !.mood_overrides = Some(json_dumps(updated))]

\* User.set_mood_override: overrides[str(track_id)] = mood, serialised back.
set_mood_override(u, track_id, mood) ==
    LET overrides == get_mood_overrides(u)
        key == ToString(track_id)
        updated == [k \in DOMAIN overrides \cup {key} |->
                        IF k = key THEN mood ELSE overrides[k]]
    IN  [u EXCEPT !.mood_overrides = Some(json_dumps(updated))]

\* User.remove_mood_override: the column goes back to NULL with the last entry.
remove_mood_override(u, track_id) ==
    LET overrides == get_mood_overrides(u)
        key == ToString(track_id)
        updated == [k \in DOMAIN overrides \ {key} |-> overrides[k]]
    IN  IF key \in DOMAIN overrides
        THEN [u EXCEPT !.mood_overrides =
                 IF DOMAIN updated = {} THEN None ELSE Some(json_dumps(updated))]
        ELSE u

\* User.get_track_mood: overrides.get(str(track.id), track.mood).
get_track_mood(u, track_id) ==
    LET overrides == get_mood_overrides(u)
        key == ToString(track_id)
    IN  IF key \in DOMAIN overrides THEN overrides[key] ELSE tracks[track_id].mood

\* update_user_mood_override without the check of lines 127-129.
update_user_mood_override_NoValidation(u, track_id, new_mood) ==
    IF track_id \notin 1..Len(tracks) THEN [ok |-> FALSE, user |-> u]
    ELSE IF new_mood = tracks[track_id].mood
         THEN [ok |-> TRUE, user |-> remove_mood_override(u, track_id)]
         ELSE [ok |-> TRUE, user |-> set_mood_override(u, track_id, new_mood)]

\* update_user_mood_override without the branch of lines 138-139: the mood is
\* stored also when it is the track's own.
update_user_mood_override_AlwaysStores(u, track_id, new_mood) ==
    IF new_mood \notin Range(get_available_moods) THEN [ok |-> FALSE, user |-> u]
    ELSE IF track_id \notin 1..Len(tracks) THEN [ok |-> FALSE, user |-> u]
    ELSE [ok |-> TRUE, user |-> set_mood_override(u, track_id, new_mood)]

\* update_user_mood_override: [ok, user], the user row as committed.
update_user_mood_override(u, track_id, new_mood) ==
    IF new_mood \notin Range(get_available_moods) THEN [ok |-> FALSE, user |-> u]
    ELSE IF track_id \notin 1..Len(tracks) THEN [ok |-> FALSE, user |-> u]
    ELSE IF new_mood = tracks[track_id].mood
         THEN [ok |-> TRUE, user |-> remove_mood_override(u, track_id)]
         ELSE [ok |-> TRUE, user |-> set_mood_override(u, track_id, new_mood)]

----------------------------------------------------------------------------
(* app.py: monthly, and database.py: get_monthly_listens_with_moods *)

\* The place of a datetime in time.
Instant(dt) == ((dt.year * 12 + (dt.month - 1)) * 31 + (dt.day - 1)) * 24 + dt.hour

\* datetime.MAXYEAR: datetime(year, ...) raises ValueError beyond it.
MAXYEAR == 9999

\* calendar.monthrange(year, month)[1].
isleap(year) == year % 4 = 0 /\ (year % 100 # 0 \/ year % 400 = 0)
monthrange(year, month) ==
    IF month = 2 THEN (IF isleap(year) THEN 29 ELSE 28)
    ELSE IF month \in {4, 6, 9, 11} THEN 30
    ELSE 31

\* strftime('%Y-%m-%d') of a year of four digits.
Pad2(n) == IF n < 10 THEN "0" \o ToString(n) ELSE ToString(n)
strftime(dt) == ToString(dt.year) \o "-" \o Pad2(dt.month) \o "-" \o Pad2(dt.day)

\* app.py spells its mood literals (lines 229-236, 245, 247) with the bytes of
\* the emoji read in another code page: each is a string other than the label
\* of the same word that database.py stores.
app_literal(word) == word \o " ~"

\* mood_scores, in halves (Unknown is 2.5), and its keys in dictionary order.
mood_score_keys ==
    <<app_literal("Angry"), app_literal("Energetic"), app_literal("Happy"),
      app_literal("Chill"), app_literal("Calm"), app_literal("Sad"),
      app_literal("Depressed"), app_literal("Unknown")>>
mood_scores ==
    [m \in Range(mood_score_keys) |->
        CASE m = app_literal("Angry") -> 10
          [] m = app_literal("Energetic") -> 8
          [] m = app_literal("Happy") -> 6
          [] m = app_literal("Chill") -> 4
          [] m = app_literal("Calm") -> 2
          [] m = app_literal("Sad") -> 0
          [] m = app_literal("Depressed") -> -2
          [] m = app_literal("Unknown") -> 5]

RECURSIVE SeqOf(_)
SeqOf(S) ==
    IF S = {} THEN <<>>
    ELSE LET x == CHOOSE x \in S : TRUE IN <<x>> \o SeqOf(S \ {x})

RECURSIVE SumScores(_)
SumScores(moods) ==
    IF moods = <<>> THEN 0 ELSE mood_scores[Head(moods)] + SumScores(Tail(moods))

Abs(n) == IF n < 0 THEN 0 - n ELSE n

\* Lines 211 and database.py 216-250: datetime(year + 1, 1, 1) for a December,
\* datetime(year, month, 1) and monthrange raise for what is no month.
MonthlyRaises(year, month) ==
    \/ month \notin 1..12
    \/ year \notin 1..MAXYEAR
    \/ (month = 12 /\ year + 1 > MAXYEAR)

\* get_monthly_listens_with_moods with the filter on the user left out.
get_monthly_listens_with_moods_AllUsers(user_id, u, year, month) ==
    LET start_date == datetime(year, month, 1, 0)
        end_date == IF month = 12 THEN datetime(year + 1, 1, 1, 0)
                    ELSE datetime(year, month + 1, 1, 0)
        rows == {l \in BagToSet(listens) :
                    /\ l.track_id \in 1..Len(tracks)
                    /\ Instant(l.played_at) >= Instant(start_date)
                    /\ Instant(l.played_at) < Instant(end_date)}
    IN  {[listen |-> l, mood |-> get_track_mood(u, l.track_id)] : l \in rows}

\* get_monthly_listens_with_moods: the user's listens of the month, joined with
\* their tracks, each with the user's effective mood.
get_monthly_listens_with_moods(user_id, u, year, month) ==
    LET start_date == datetime(year, month, 1, 0)
        end_date == IF month = 12 THEN datetime(year + 1, 1, 1, 0)
                    ELSE datetime(year, month + 1, 1, 0)
        rows == {l \in BagToSet(listens) :
                    /\ l.user_id = user_id
                    /\ l.track_id \in 1..Len(tracks)
                    /\ Instant(l.played_at) >= Instant(start_date)
                    /\ Instant(l.played_at) < Instant(end_date)}
    IN  {[listen |-> l, mood |-> get_track_mood(u, l.track_id)] : l \in rows}

\* Lines 214-219: daily_moods[day_key], the moods of the listens of one day.
daily_moods(monthly_listens, day) ==
    LET of_day == SeqOf({d \in monthly_listens : strftime(d.listen.played_at) = day})
    IN  [i \in 1..Len(of_day) |-> of_day[i].mood]

\* Lines 238-245: the key of mood_scores closest to the average score of the
\* moods that are keys of mood_scores, the first such key in dictionary order;
\* Unknown when none is a key.
closest_score(moods) ==
    LET valid_moods == SelectSeq(moods, LAMBDA m : m \in DOMAIN mood_scores)
        total == SumScores(valid_moods)
        dist(m) == Abs(mood_scores[m] * Len(valid_moods) - total)
        first == CHOOSE i \in 1..Len(mood_score_keys) :
                     /\ \A j \in 1..Len(mood_score_keys) :
                            dist(mood_score_keys[i]) <= dist(mood_score_keys[j])
                     /\ \A j \in 1..(i - 1) :
                            dist(mood_score_keys[j]) > dist(mood_score_keys[i])
    IN  IF valid_moods # <<>> THEN mood_score_keys[first] ELSE app_literal("Unknown")

\* Lines 221-249: one entry per day of the month.
mood_grid(user_id, u, year, month) ==
    LET monthly_listens == get_monthly_listens_with_moods(user_id, u, year, month)
        num_days == monthrange(year, month)
    IN  [d \in 1..num_days |->
            LET day == strftime(datetime(year, month, d, 0))
                moods == daily_moods(monthly_listens, day)
            IN  [day |-> day,
                 mood |-> IF moods # <<>> THEN closest_score(moods) ELSE app_literal("No Data"),
                 count |-> Len(moods)]]

----------------------------------------------------------------------------
(* auth.py *)

\* create_or_update_user: the users table after the commit, and the row's id.
UserIdOf(spotify_id) ==
    IF \E i \in 1..Len(users) : users[i].spotify_id = spotify_id
    THEN CHOOSE i \in 1..Len(users) : users[i].spotify_id = spotify_id
    ELSE Len(users) + 1

create_or_update_user(spotify_id, expires_in) ==
    LET id == UserIdOf(spotify_id)
        row == IF id <= Len(users) THEN users[id] ELSE NewUser(spotify_id)
        updated == set_tokens(row, Some(AccessPlain), Some(RefreshPlain), now + expires_in)
    IN  IF id <= Len(users) THEN [users EXCEPT ![id] = updated]
        ELSE Append(users, updated)

\* refresh_user_tokens: [ok, user]. provider is the answer of
\* sp_oauth.refresh_access_token: "reject" (it raises) or "ok" with expires_in.
refresh_user_tokens(u, provider) ==
    IF DecryptRaises(u.refresh_token) THEN [ok |-> FALSE, user |-> u]
    ELSE IF IsNone(decrypt_token(u.refresh_token)) THEN [ok |-> FALSE, user |-> u]
    ELSE IF provider.answer = "reject" THEN [ok |-> FALSE, user |-> u]
    ELSE [ok |-> TRUE,
          user |-> set_tokens(u, Some(AccessPlain), Some(RefreshPlain),
                              now + provider.expires_in)]

Providers ==
    {[answer |-> "reject", expires_in |-> 1]}
        \cup {[answer |-> "ok", expires_in |-> e] : e \in Lifetimes}

----------------------------------------------------------------------------
(* auth.py: login_required, and app.py: the views it wraps *)

Routes == {"recent", "update_mood", "monthly", "day_songs", "stats"}

\* GuardDecision with the refresh result ignored: a failed refresh falls
\* through to the view.
GuardDecision_IgnoresRefreshFailure(s, provider) ==
    LET user_id == s.user_id
        found == user_id \in 1..Len(users)
        user == users[user_id]
        refreshed == refresh_user_tokens(user, provider)
    IN  IF user_id = 0
        THEN [outcome |-> "no_user_id", clear |-> FALSE, user_id |-> 0, row |-> NewUser(0)]
        ELSE IF ~found
        THEN [outcome |-> "no_user_row", clear |-> TRUE, user_id |-> 0, row |-> NewUser(0)]
        ELSE [outcome |-> "authorized", clear |-> FALSE, user_id |-> user_id,
              row |-> IF is_token_expired(user) THEN refreshed.user ELSE user]

\* GuardDecision without the expiry check of line 95.
GuardDecision_NoExpiryCheck(s, provider) ==
    LET user_id == s.user_id
        found == user_id \in 1..Len(users)
    IN  IF user_id = 0
        THEN [outcome |-> "no_user_id", clear |-> FALSE, user_id |-> 0, row |-> NewUser(0)]
        ELSE IF ~found
        THEN [outcome |-> "no_user_row", clear |-> TRUE, user_id |-> 0, row |-> NewUser(0)]
        ELSE [outcome |-> "authorized", clear |-> FALSE, user_id |-> user_id,
              row |-> users[user_id]]

\* GuardDecision without the session.clear() of line 91.
GuardDecision_KeepsStaleSession(s, provider) ==
    LET user_id == s.user_id
        found == user_id \in 1..Len(users)
        user == users[user_id]
        refreshed == refresh_user_tokens(user, provider)
    IN  IF user_id = 0
        THEN [outcome |-> "no_user_id", clear |-> FALSE, user_id |-> 0, row |-> NewUser(0)]
        ELSE IF ~found
        THEN [outcome |-> "no_user_row", clear |-> FALSE, user_id |-> 0, row |-> NewUser(0)]
        ELSE IF is_token_expired(user)
        THEN IF refreshed.ok
             THEN [outcome |-> "authorized", clear |-> FALSE, user_id |-> user_id,
                   row |-> refreshed.user]
             ELSE [outcome |-> "refresh_failed", clear |-> TRUE, user_id |-> user_id,
                   row |-> user]
        ELSE [outcome |-> "authorized", clear |-> FALSE, user_id |-> user_id, row |-> user]

\* What the wrapper decides before it calls the view (auth.py lines 83-98):
\* the outcome, whether session.clear() ran, and the user it resolved: the id
\* looked up and the row as committed.
GuardDecision(s, provider) ==
    LET user_id == s.user_id
        found == user_id \in 1..Len(users)
        user == users[user_id]
        refreshed == refresh_user_tokens(user, provider)
    IN  IF user_id = 0
        THEN [outcome |-> "no_user_id", clear |-> FALSE, user_id |-> 0, row |-> NewUser(0)]
        ELSE IF ~found
        THEN [outcome |-> "no_user_row", clear |-> TRUE, user_id |-> 0, row |-> NewUser(0)]
        ELSE IF is_token_expired(user)
        THEN IF refreshed.ok
             THEN [outcome |-> "authorized", clear |-> FALSE, user_id |-> user_id,
                   row |-> refreshed.user]
             ELSE [outcome |-> "refresh_failed", clear |-> TRUE, user_id |-> user_id,
                   row |-> user]
        ELSE [outcome |-> "authorized", clear |-> FALSE, user_id |-> user_id, row |-> user]

\* The views that answer within one step (app.py update_mood, monthly,
\* day_songs, stats): the response, whether an exception left the view, and the
\* user row as committed.
ViewResult(route, inp, u) ==
    LET upd == update_user_mood_override(u, inp.track_id, inp.mood)
    IN  CASE route = "update_mood" ->
                 IF inp.form = "no_json"
                 THEN [status |-> "server_error", cause |-> "exception", raised |-> FALSE, user |-> u, body |-> <<>>]
                 ELSE IF inp.track_id = 0 \/ inp.mood = ""
                 THEN [status |-> "bad_request", cause |-> "missing", raised |-> FALSE, user |-> u, body |-> <<>>]
                 ELSE IF upd.ok
                 THEN [status |-> "ok", cause |-> "none", raised |-> FALSE, user |-> upd.user, body |-> <<>>]
                 ELSE [status |-> "bad_request", cause |-> "invalid", raised |-> FALSE, user |-> u, body |-> <<>>]
          [] route = "monthly" ->
                 IF inp.form = "POST_no_field"
                 THEN [status |-> "none", cause |-> "exception", raised |-> TRUE, user |-> u, body |-> <<>>]
                 ELSE IF inp.form = "GET"
                 THEN [status |-> "ok", cause |-> "none", raised |-> FALSE, user |-> u, body |-> <<>>]
                 ELSE IF inp.form = "POST_bad_month" \/ MonthlyRaises(inp.year, inp.month)
                 THEN [status |-> "redirect_login", cause |-> "exception", raised |-> FALSE, user |-> u, body |-> <<>>]
                 ELSE [status |-> "ok", cause |-> "none", raised |-> FALSE, user |-> u,
                       body |-> mood_grid(UserIdOf(u.spotify_id), u, inp.year, inp.month)]
          [] route = "day_songs" ->
                 IF inp.form = "missing"
                 THEN [status |-> "bad_request", cause |-> "missing", raised |-> FALSE, user |-> u, body |-> <<>>]
                 ELSE IF inp.form = "bad_date"
                 THEN [status |-> "server_error", cause |-> "exception", raised |-> FALSE, user |-> u, body |-> <<>>]
                 ELSE [status |-> "ok", cause |-> "none", raised |-> FALSE, user |-> u, body |-> <<>>]
          [] OTHER ->
                 [status |-> "ok", cause |-> "none", raised |-> FALSE, user |-> u, body |-> <<>>]

\* login_required.decorator.wrapper for one request of client c. glog keeps
\* what the request met (the session's user id, whether its row exists, whether
\* its credential was expired, how the refresh went) and what the wrapper did.
Guard(c, route, provider, inp) ==
    LET d == GuardDecision(session[c], provider)
        session_user == session[c].user_id
        found == session_user \in 1..Len(users)
        was_expired == found /\ is_token_expired(users[session_user])
        refresh == IF ~was_expired THEN "none"
                   ELSE IF refresh_user_tokens(users[session_user], provider).ok THEN "ok"
                   ELSE "failed"
        user_id == d.user_id
        usable == d.outcome = "authorized" /\ ~DecryptRaises(d.row.access_token)
        v == ViewResult(route, inp, d.row)
        log == [route |-> route, outcome |-> d.outcome, session_user |-> session_user,
                user_found |-> found, was_expired |-> was_expired, refresh |-> refresh,
                client |-> usable, invoked |-> usable,
                view_user |-> IF usable THEN user_id ELSE 0,
                expired_at_invoke |-> usable /\ is_token_expired(d.row), inp |-> inp]
    IN  /\ pc[c] = "idle"
        /\ users' = IF d.outcome = "authorized"
                    THEN [users EXCEPT ![user_id] = IF usable /\ route # "recent" THEN v.user ELSE d.row]
                    ELSE users
        /\ IF d.outcome # "authorized"
           THEN \* lines 85-98: redirect('/login'), after session.clear() but for a missing user id
                /\ session' = [session EXCEPT ![c] = IF d.clear THEN EmptySession ELSE @]
                /\ resp' = [resp EXCEPT ![c] = [route |-> route, by |-> "guard",
                                status |-> "redirect_login", cause |-> d.outcome, saved |-> -1, body |-> <<>>]]
                /\ glog' = [glog EXCEPT ![c] = log]
                /\ req' = [req EXCEPT ![c] = NoReq]
                /\ UNCHANGED pc
           ELSE IF ~usable
           THEN \* lines 102-107: user.get_access_token() raises inside the try
                /\ session' = [session EXCEPT ![c] = EmptySession]
                /\ resp' = [resp EXCEPT ![c] = [route |-> route, by |-> "guard",
                                status |-> "redirect_login", cause |-> "client_error", saved |-> -1, body |-> <<>>]]
                /\ glog' = [glog EXCEPT ![c] = [log EXCEPT !.outcome = "client_error"]]
                /\ req' = [req EXCEPT ![c] = NoReq]
                /\ UNCHANGED pc
           ELSE IF route = "recent"
           THEN \* app.py line 109: session.pop('show_about_modal'), then the API calls
                /\ session' = [session EXCEPT ![c].show_about_modal = FALSE]
                /\ pc' = [pc EXCEPT ![c] = "fetch"]
                /\ req' = [req EXCEPT ![c] = [NoReq EXCEPT !.route = route, !.user = user_id,
                               !.items = req[c].items,
                               !.again = req[c].user = user_id /\ resp[c].route = "recent"
                                         /\ resp[c].by = "view" /\ resp[c].status = "ok"]]
                /\ resp' = [resp EXCEPT ![c] = NoResp]
                /\ glog' = [glog EXCEPT ![c] = log]
           ELSE IF v.raised
           THEN \* lines 104-107: the exception leaves the view
                /\ session' = [session EXCEPT ![c] = EmptySession]
                /\ resp' = [resp EXCEPT ![c] = [route |-> route, by |-> "guard",
                                status |-> "redirect_login", cause |-> "view_raised", saved |-> -1, body |-> <<>>]]
                /\ glog' = [glog EXCEPT ![c] = log]
                /\ req' = [req EXCEPT ![c] = NoReq]
                /\ UNCHANGED pc
           ELSE /\ resp' = [resp EXCEPT ![c] = [route |-> route, by |-> "view",
                                status |-> v.status, cause |-> v.cause, saved |-> -1,
                                body |-> v.body]]
                /\ glog' = [glog EXCEPT ![c] = log]
                /\ req' = [req EXCEPT ![c] = NoReq]
                /\ UNCHANGED <<session, pc>>
        /\ UNCHANGED <<encKeySet, now, tracks, listens, sess_new, sess_tx, deezer_calls>>

\* A /update-mood request in two steps, for requests that overlap. First the
\* wrapper, when it lets the request through (auth.py lines 83-103):
\* User.query.get reads the row, a refresh commits the new tokens, and
\* update_mood is called with the User object. The object keeps the
\* mood_overrides it was loaded with: nothing in the view reads the row again.
UpdateMoodLoad(c, provider, inp) ==
    LET d == GuardDecision(session[c], provider)
        session_user == session[c].user_id
        was_expired == is_token_expired(users[session_user])
        log == [route |-> "update_mood", outcome |-> d.outcome,
                session_user |-> session_user, user_found |-> TRUE,
                was_expired |-> was_expired,
                refresh |-> IF was_expired THEN "ok" ELSE "none",
                client |-> TRUE, invoked |-> TRUE, view_user |-> d.user_id,
                expired_at_invoke |-> is_token_expired(d.row), inp |-> inp]
    IN  /\ pc[c] = "idle"
        /\ d.outcome = "authorized"
        /\ ~DecryptRaises(d.row.access_token)
        /\ users' = [users EXCEPT ![d.user_id] = d.row]
        /\ pc' = [pc EXCEPT ![c] = "view"]
        /\ req' = [req EXCEPT ![c] = [NoReq EXCEPT !.route = "update_mood",
                                                   !.user = d.user_id, !.loaded = d.row]]
        /\ resp' = [resp EXCEPT ![c] = NoResp]
        /\ glog' = [glog EXCEPT ![c] = log]
        /\ UNCHANGED <<encKeySet, now, tracks, listens, session, sess_new, sess_tx,
                       deezer_calls>>

\* Then the view (app.py lines 183-200, database.py lines 126-143, models.py
\* lines 90-103): the override map is computed from the loaded object and
\* db.session.commit() writes the column that changed, UPDATE users SET
\* mood_overrides = ... WHERE id = ..., over whatever the row holds by then. No
\* lock and no version column guards the row between the read and the write.
UpdateMoodView(c) ==
    LET user_id == req[c].user
        loaded == req[c].loaded
        v == ViewResult("update_mood", glog[c].inp, loaded)
    IN  /\ pc[c] = "view"
        /\ user_id \in 1..Len(users)
        /\ users' = IF v.user.mood_overrides # loaded.mood_overrides
                    THEN [users EXCEPT ![user_id].mood_overrides = v.user.mood_overrides]
                    ELSE users
        /\ resp' = [resp EXCEPT ![c] = [route |-> "update_mood", by |-> "view",
                        status |-> v.status, cause |-> v.cause, saved |-> -1,
                        body |-> v.body]]
        /\ pc' = [pc EXCEPT ![c] = "idle"]
        /\ req' = [req EXCEPT ![c] = NoReq]
        /\ UNCHANGED <<encKeySet, now, tracks, listens, session, sess_new, sess_tx, glog,
                       deezer_calls>>

----------------------------------------------------------------------------
(* app.py: the routes outside the guard; db_manager.py: reset_db *)

\* GET /login: session.clear(), then a fresh nonce.
Login(c) ==
    /\ pc[c] = "idle"
    /\ session' = [session EXCEPT ![c] = [EmptySession EXCEPT !.nonce = TRUE]]
    /\ resp' = [resp EXCEPT ![c] = [NoResp EXCEPT !.route = "login", !.by = "view", !.status = "ok"]]
    /\ glog' = [glog EXCEPT ![c] = NoGlog]
    /\ req' = [req EXCEPT ![c] = NoReq]
    /\ UNCHANGED <<encKeySet, now, users, tracks, listens, pc, sess_new, sess_tx, deezer_calls>>

\* GET /callback. answer: "error_param" (the provider sent ?error), "exchange_fails"
\* (get_access_token raises), "profile_fails" (current_user raises) or "ok".
Callback(c, answer, spotify_id, expires_in) ==
    /\ pc[c] = "idle"
    /\ IF answer = "error_param"
       THEN /\ resp' = [resp EXCEPT ![c] = [NoResp EXCEPT !.route = "callback", !.by = "view",
                            !.status = "redirect_login", !.cause = "error_param"]]
            /\ UNCHANGED <<session, users>>
       ELSE IF answer \in {"exchange_fails", "profile_fails"}
       THEN /\ session' = [session EXCEPT ![c] = EmptySession]
            /\ resp' = [resp EXCEPT ![c] = [NoResp EXCEPT !.route = "callback", !.by = "view",
                            !.status = "redirect_login", !.cause = "exception"]]
            /\ UNCHANGED users
       ELSE /\ users' = create_or_update_user(spotify_id, expires_in)
            /\ session' = [session EXCEPT ![c] =
                              [@ EXCEPT !.token_info = TRUE, !.user_id = UserIdOf(spotify_id),
                                        !.logged_in = TRUE, !.show_about_modal = TRUE]]
            /\ resp' = [resp EXCEPT ![c] = [NoResp EXCEPT !.route = "callback", !.by = "view",
                            !.status = "redirect_recent"]]
    /\ glog' = [glog EXCEPT ![c] = NoGlog]
    /\ req' = [req EXCEPT ![c] = NoReq]
    /\ UNCHANGED <<encKeySet, now, tracks, listens, pc, sess_new, sess_tx, deezer_calls>>

\* GET /logout.
Logout(c) ==
    /\ pc[c] = "idle"
    /\ session' = [session EXCEPT ![c] = EmptySession]
    /\ resp' = [resp EXCEPT ![c] = [NoResp EXCEPT !.route = "logout", !.by = "view",
                    !.status = "redirect_login"]]
    /\ glog' = [glog EXCEPT ![c] = NoGlog]
    /\ req' = [req EXCEPT ![c] = NoReq]
    /\ UNCHANGED <<encKeySet, now, users, tracks, listens, pc, sess_new, sess_tx, deezer_calls>>

\* datetime.utcnow() moves on.
Tick ==
    /\ now < MaxClock
    /\ now' = now + 1
    /\ UNCHANGED <<encKeySet, users, tracks, listens, session, pc, req, sess_new, sess_tx,
                   resp, glog, deezer_calls>>

\* db_manager.reset_db: drop_all() and create_all(), run while no request is in flight.
reset_db ==
    /\ \A c \in Clients : pc[c] = "idle"
    /\ Len(users) > 0
    /\ users' = <<>>
    /\ tracks' = <<>>
    /\ listens' = EmptyBag
    /\ deezer_calls' = [s \in SpotifyIds |-> 0]
    /\ UNCHANGED <<encKeySet, now, session, pc, req, sess_new, sess_tx, resp, glog>>

----------------------------------------------------------------------------
(* database.py: the secondary catalog (Deezer) and the track resolver *)

\* What the streaming API says of a track id: spotify_track['id'], ['name'],
\* ['artists'][0]['name'].
SpotifyTrack(spotify_id) ==
    [id |-> spotify_id, name |-> <<"title", spotify_id>>, artist |-> <<"artist", spotify_id>>]

\* One answer of the catalog to a creation: the search errs, is empty or finds a
\* Deezer id; the metrics request errs, carries no gain, or carries gain.
Gains == {-14, 0, 4}

CatalogAnswers ==
    {[search |-> s, metrics |-> "-", gain |-> 0] : s \in {"error", "empty"}}
        \cup {[search |-> "found", metrics |-> m, gain |-> 0] : m \in {"error", "no_gain"}}
        \cup {[search |-> "found", metrics |-> "gain", gain |-> g] : g \in Gains}

\* get_deezer_id: results[0]["id"], or None on an exception or an empty result.
get_deezer_id(spotify_track, answer) ==
    IF answer.search = "found" THEN Some(<<"deezer", spotify_track.id>>) ELSE None

\* get_deezer_metrics(...).get('gain'): {} on an exception, else data.get("gain").
get_deezer_metrics(answer) ==
    IF answer.metrics = "gain" THEN Some(answer.gain) ELSE None

\* TrackIdOf with the query on a column that never matches.
TrackIdOf_NeverFinds(spotify_id) == 0

\* Track.query.filter_by(spotify_id=...).first(): the row's id, 0 for no row.
TrackIdOf(spotify_id) ==
    IF \E i \in 1..Len(tracks) : tracks[i].spotify_id = spotify_id
    THEN CHOOSE i \in 1..Len(tracks) : tracks[i].spotify_id = spotify_id
    ELSE 0

\* NewTrack without the Unknown default of lines 105-108: a track the catalog
\* does not know keeps a NULL mood.
NewTrack_NoDefaultMood(spotify_track, answer) ==
    LET deezer_id == get_deezer_id(spotify_track, answer)
        gain == get_deezer_metrics(answer)
    IN  IF ~IsNone(deezer_id)
        THEN [spotify_id |-> spotify_track.id, name |-> spotify_track.name,
              artist |-> spotify_track.artist, deezer_id |-> deezer_id,
              gain |-> gain, mood |-> classify_mood(gain)]
        ELSE [spotify_id |-> spotify_track.id, name |-> spotify_track.name,
              artist |-> spotify_track.artist, deezer_id |-> None,
              gain |-> None, mood |-> "NULL"]

\* get_or_create_track, lines 90-108: the new row with its default mood.
NewTrack(spotify_track, answer) ==
    LET deezer_id == get_deezer_id(spotify_track, answer)
        gain == get_deezer_metrics(answer)
    IN  IF ~IsNone(deezer_id)
        THEN [spotify_id |-> spotify_track.id, name |-> spotify_track.name,
              artist |-> spotify_track.artist, deezer_id |-> deezer_id,
              gain |-> gain, mood |-> classify_mood(gain)]
        ELSE [spotify_id |-> spotify_track.id, name |-> spotify_track.name,
              artist |-> spotify_track.artist, deezer_id |-> None,
              gain |-> None, mood |-> "Unknown"]

----------------------------------------------------------------------------
(* database.py: save_listening_history inside app.py: recent *)

\* One item of current_user_recently_played: the track and the played_at string
\* (an instant with its zone suffix).
Item(spotify_id, instant) ==
    [track |-> spotify_id, played_at |-> [instant |-> instant, zone |-> "Z"]]

\* datetime.fromisoformat(s.replace('Z', '+00:00')).replace(tzinfo=None): the
\* zone is dropped, the wall-clock instant kept.
ParsePlayedAt(played_at_str) == played_at_str.instant

Listen(user_id, track_id, played_at) ==
    [user_id |-> user_id, track_id |-> track_id, played_at |-> played_at]

Bag1(row) == SetToBag({row})

\* The listens table without its UniqueConstraint.
UniqueViolation_NoConstraint(c, row) == FALSE

\* The UniqueConstraint unique_listen: an INSERT of row by c raises IntegrityError
\* when the row is committed or already inserted in c's own transaction.
UniqueViolation(c, row) == BagIn(row, listens (+) sess_tx[c])

\* Another open transaction inserted the same key: the INSERT waits for it.
LockedByOther(c, row) == \E d \in Clients \ {c} : BagIn(row, sess_tx[d])

\* Listen.query.filter_by(...).first() on what c's session sees.
ListenExists(visible, row) == BagIn(row, visible)

Pending(c) == BagToSet(sess_new[c])
FlushRaises(c) == \E row \in Pending(c) : UniqueViolation(c, row)
FlushWaits(c) == \E row \in Pending(c) : LockedByOther(c, row)

InLoop(c) == pc[c] = "loop" /\ req[c].idx <= Len(req[c].items)
AtCommit(c) == pc[c] = "loop" /\ req[c].idx > Len(req[c].items)

\* The request ends in recent's except clause (app.py lines 173-177): a redirect
\* to /login with the session left as it is; the db session is rolled back at
\* teardown.
Fail(c, cause) ==
    /\ pc' = [pc EXCEPT ![c] = "idle"]
    /\ resp' = [resp EXCEPT ![c] = [route |-> "recent", by |-> "view",
                    status |-> "redirect_login", cause |-> cause, saved |-> -1, body |-> <<>>]]
    /\ sess_new' = [sess_new EXCEPT ![c] = EmptyBag]
    /\ sess_tx' = [sess_tx EXCEPT ![c] = EmptyBag]

\* app.py lines 110-128: current_playbook is no method of the client, the
\* AttributeError is swallowed; then current_user_recently_played raises or
\* answers the items.
RecentFetch(c, answer, items) ==
    /\ pc[c] = "fetch"
    /\ IF answer = "raises"
       THEN /\ Fail(c, "spotify_error")
            /\ UNCHANGED req
       ELSE /\ pc' = [pc EXCEPT ![c] = "loop"]
            /\ req' = [req EXCEPT ![c].again = @ /\ items = req[c].items,
                                  ![c].items = items, ![c].idx = 1]
            /\ UNCHANGED <<resp, sess_new, sess_tx>>
    /\ UNCHANGED <<encKeySet, now, users, tracks, listens, session, glog, deezer_calls>>

\* ListenStep with saved_count += 1 outside the if of line 175.
ListenStep_CountsExisting(c, track_id, visible) ==
    LET item == req[c].items[req[c].idx]
        row == Listen(req[c].user, track_id, ParsePlayedAt(item.played_at))
    IN  IF ListenExists(visible, row)
        THEN [add |-> EmptyBag, saved_count |-> req[c].saved_count + 1]
        ELSE [add |-> Bag1(row), saved_count |-> req[c].saved_count + 1]

\* Lines 169-181 for the item at idx with its track resolved to track_id, on
\* the rows visible to c: the rows to add and the new saved_count.
ListenStep(c, track_id, visible) ==
    LET item == req[c].items[req[c].idx]
        row == Listen(req[c].user, track_id, ParsePlayedAt(item.played_at))
    IN  IF ListenExists(visible, row)
        THEN [add |-> EmptyBag, saved_count |-> req[c].saved_count]
        ELSE [add |-> Bag1(row), saved_count |-> req[c].saved_count + 1]

\* Lines 161-167 and 82-87: the Track query flushes the Listen added by the
\* item before, then finds the track or not. A stored track is returned as it
\* is and lines 169-181 run for the item.
TrackLookup(c) ==
    /\ InLoop(c)
    /\ ~FlushRaises(c)
    /\ ~FlushWaits(c)
    /\ LET item == req[c].items[req[c].idx]
           track_id == TrackIdOf(item.track)
           flushed == sess_tx[c] (+) sess_new[c]
           step == ListenStep(c, track_id, listens (+) flushed)
       IN  /\ sess_tx' = [sess_tx EXCEPT ![c] = flushed]
           /\ IF track_id # 0
              THEN /\ sess_new' = [sess_new EXCEPT ![c] = step.add]
                   /\ req' = [req EXCEPT ![c].idx = @ + 1, ![c].track = track_id,
                                         ![c].created = FALSE, ![c].answer = NoAnswer,
                                         ![c].saved_count = step.saved_count]
                   /\ pc' = pc
              ELSE /\ sess_new' = [sess_new EXCEPT ![c] = EmptyBag]
                   /\ req' = req
                   /\ pc' = [pc EXCEPT ![c] = "create"]
    /\ UNCHANGED <<encKeySet, now, users, tracks, listens, session, resp, glog, deezer_calls>>

\* An autoflush or the last commit INSERTs a Listen that is already stored:
\* IntegrityError, which nothing in save_listening_history catches.
FlushFails(c) ==
    /\ InLoop(c) \/ (AtCommit(c) /\ req[c].saved_count > 0)
    /\ FlushRaises(c)
    /\ Fail(c, "IntegrityError unique_listen")
    /\ UNCHANGED <<encKeySet, now, users, tracks, listens, session, req, glog, deezer_calls>>

\* The INSERT waits for another transaction's lock longer than the store allows.
LockTimeout(c) ==
    /\ InLoop(c) \/ (AtCommit(c) /\ req[c].saved_count > 0)
    /\ ~FlushRaises(c)
    /\ FlushWaits(c)
    /\ Fail(c, "OperationalError")
    /\ UNCHANGED <<encKeySet, now, users, tracks, listens, session, req, glog, deezer_calls>>

\* Lines 90-112: the catalog is asked, the Track is added and db.session.commit()
\* commits it together with everything the session had flushed; then lines
\* 169-181 run for the item.
TrackCreate(c, answer) ==
    /\ pc[c] = "create"
    /\ LET item == req[c].items[req[c].idx]
           track == NewTrack(SpotifyTrack(item.track), answer)
           track_id == Len(tracks) + 1
           committed == listens (+) sess_tx[c]
           step == ListenStep(c, track_id, committed)
       IN  /\ TrackIdOf(item.track) = 0
           /\ deezer_calls' = [deezer_calls EXCEPT ![item.track] = @ + 1]
           /\ tracks' = Append(tracks, track)
           /\ listens' = committed
           /\ sess_tx' = [sess_tx EXCEPT ![c] = EmptyBag]
           /\ sess_new' = [sess_new EXCEPT ![c] = step.add]
           /\ req' = [req EXCEPT ![c].idx = @ + 1, ![c].track = track_id,
                                 ![c].created = TRUE, ![c].answer = answer,
                                 ![c].saved_count = step.saved_count,
                                 ![c].early_commits = @ (+) sess_tx[c]]
           /\ pc' = [pc EXCEPT ![c] = "loop"]
    /\ UNCHANGED <<encKeySet, now, users, session, resp, glog>>

\* Lines 90-112 when another request stored the same spotify_id since the
\* lookup: the commit violates tracks.spotify_id UNIQUE and raises IntegrityError.
TrackCreateConflict(c) ==
    /\ pc[c] = "create"
    /\ LET item == req[c].items[req[c].idx]
       IN  /\ TrackIdOf(item.track) # 0
           /\ deezer_calls' = [deezer_calls EXCEPT ![item.track] = @ + 1]
    /\ Fail(c, "IntegrityError tracks.spotify_id")
    /\ UNCHANGED <<encKeySet, now, users, tracks, listens, session, req, glog>>

\* Lines 184-188, then app.py lines 131-171: the one commit after the loop when
\* something was added, and the rendered page.
Finish(c) ==
    /\ AtCommit(c)
    /\ req[c].saved_count > 0 => ~FlushRaises(c) /\ ~FlushWaits(c)
    /\ LET durable == sess_tx[c] (+) sess_new[c]
       IN  IF req[c].saved_count > 0
           THEN listens' = listens (+) durable
           ELSE listens' = listens
    /\ req' = [req EXCEPT ![c] = [NoReq EXCEPT !.route = "recent", !.user = req[c].user,
                                               !.items = req[c].items,
                                               !.again = req[c].again]]
    /\ sess_new' = [sess_new EXCEPT ![c] = EmptyBag]
    /\ sess_tx' = [sess_tx EXCEPT ![c] = EmptyBag]
    /\ pc' = [pc EXCEPT ![c] = "idle"]
    /\ resp' = [resp EXCEPT ![c] = [route |-> "recent", by |-> "view", status |-> "ok",
                    cause |-> "none", saved |-> req[c].saved_count, body |-> <<>>]]
    /\ UNCHANGED <<encKeySet, now, users, tracks, session, glog, deezer_calls>>

----------------------------------------------------------------------------
(* Specifications *)

Quiet ==
    /\ pc = [c \in Clients |-> "idle"]
    /\ req = [c \in Clients |-> NoReq]
    /\ sess_new = [c \in Clients |-> EmptyBag]
    /\ sess_tx = [c \in Clients |-> EmptyBag]
    /\ resp = [c \in Clients |-> NoResp]
    /\ glog = [c \in Clients |-> NoGlog]
    /\ deezer_calls = [s \in SpotifyIds |-> 0]

\* The application as deployed: empty tables, nobody logged in, the encryption
\* key configured or not.
Init ==
    /\ encKeySet \in BOOLEAN
    /\ now = 0
    /\ users = <<>>
    /\ tracks = <<>>
    /\ listens = EmptyBag
    /\ session = [c \in Clients |-> EmptySession]
    /\ Quiet

\* The state after every account went through /callback with the key
\* configured: each client holds the session of one of the users.
LoggedInSession(user_id) ==
    [EmptySession EXCEPT !.user_id = user_id, !.token_info = TRUE, !.logged_in = TRUE,
                         !.nonce = TRUE]

InitLoggedIn ==
    /\ encKeySet = TRUE
    /\ now = 0
    /\ users = [i \in Accounts |->
                   [spotify_id |-> i,
                    access_token |-> Some([key |-> "env", plain |-> AccessPlain]),
                    refresh_token |-> Some([key |-> "env", plain |-> RefreshPlain]),
                    token_expires_at |-> Some(MaxLifetime), mood_overrides |-> None]]
    /\ tracks = <<>>
    /\ listens = EmptyBag
    /\ session \in [Clients -> {LoggedInSession(i) : i \in Accounts}]
    /\ Quiet

Browser == CHOOSE c \in Clients : TRUE

Items == {Item(s, p) : s \in SpotifyIds, p \in PlayedAts}
Batches == SeqsUpTo(Items, MaxBatch)
SmallBatches == SeqsUpTo({Item(1, datetime(2024, 5, 2, 1))}, 1)
SmallCatalog == {a \in CatalogAnswers : a.search = "empty" \/ (a.metrics = "gain" /\ a.gain = 4)}

\* The provider is asked only when the guard refreshes (auth.py line 95).
ProvidersAsked(c) ==
    IF session[c].user_id \in 1..Len(users) /\ is_token_expired(users[session[c].user_id])
    THEN Providers
    ELSE {CHOOSE p \in Providers : p.answer = "reject"}

RouteInputs(route) ==
    CASE route = "update_mood" ->
             {[NoInput EXCEPT !.form = "json", !.track_id = 1, !.mood = m] :
                  m \in {"", "Angry", "Bored"}}
                 \cup {[NoInput EXCEPT !.form = "no_json"]}
      [] route = "monthly" ->
             {[NoInput EXCEPT !.form = f, !.year = 2024, !.month = 5] :
                  f \in {"GET", "POST", "POST_bad_month", "POST_no_field"}}
      [] route = "day_songs" ->
             {[NoInput EXCEPT !.form = f] : f \in {"ok", "missing", "bad_date"}}
      [] OTHER -> {NoInput}

\* One browser against the whole application: login, callback, logout, the
\* guarded routes, the clock and the database manager.
DoLogin == Login(Browser)
DoCallback ==
    \E answer \in {"error_param", "exchange_fails", "profile_fails", "ok"},
       spotify_id \in Accounts, expires_in \in Lifetimes :
        Callback(Browser, answer, spotify_id, expires_in)
DoLogout == Logout(Browser)
DoGuard ==
    \E route \in Routes, provider \in ProvidersAsked(Browser) :
        \E inp \in RouteInputs(route) : Guard(Browser, route, provider, inp)
DoRecentFetch ==
    \E answer \in {"raises", "ok"}, items \in SmallBatches : RecentFetch(Browser, answer, items)
DoTrackLookup == TrackLookup(Browser)
DoTrackCreate == \E answer \in SmallCatalog : TrackCreate(Browser, answer)
DoFinish == Finish(Browser)

Next ==
    \/ DoLogin
    \/ DoCallback
    \/ DoLogout
    \/ DoGuard
    \/ DoRecentFetch
    \/ DoTrackLookup
    \/ DoTrackCreate
    \/ DoFinish
    \/ Tick
    \/ reset_db

Spec == Init /\ [][Next]_vars

\* One logged-in browser calling /recent again and again: the recorder and the
\* resolver run one call at a time, against every answer of the catalog.
SeqGuard == \E provider \in ProvidersAsked(Browser) : Guard(Browser, "recent", provider, NoInput)
SeqRecentFetch ==
    \E answer \in {"raises", "ok"}, items \in Batches : RecentFetch(Browser, answer, items)
SeqTrackLookup == TrackLookup(Browser)
SeqTrackCreate == \E answer \in CatalogAnswers : TrackCreate(Browser, answer)
SeqFinish == Finish(Browser)

NextSeq ==
    \/ SeqGuard
    \/ SeqRecentFetch
    \/ SeqTrackLookup
    \/ SeqTrackCreate
    \/ SeqFinish

SpecSeq == InitLoggedIn /\ [][NextSeq]_vars

\* Logged-in clients, each calling /recent once, concurrently.
ConcGuard ==
    \E c \in Clients : \E provider \in ProvidersAsked(c) :
        resp[c] = NoResp /\ Guard(c, "recent", provider, NoInput)
ConcRecentFetch ==
    \E c \in Clients, answer \in {"raises", "ok"}, items \in Batches : RecentFetch(c, answer, items)
ConcTrackLookup == \E c \in Clients : TrackLookup(c)
ConcFlushFails == \E c \in Clients : FlushFails(c)
ConcLockTimeout == \E c \in Clients : LockTimeout(c)
ConcTrackCreate == \E c \in Clients, answer \in SmallCatalog : TrackCreate(c, answer)
ConcTrackCreateConflict == \E c \in Clients : TrackCreateConflict(c)
ConcFinish == \E c \in Clients : Finish(c)

NextConc ==
    \/ ConcGuard
    \/ ConcRecentFetch
    \/ ConcTrackLookup
    \/ ConcFlushFails
    \/ ConcLockTimeout
    \/ ConcTrackCreate
    \/ ConcTrackCreateConflict
    \/ ConcFinish

SpecConc == InitLoggedIn /\ [][NextConc]_vars

\* One logged-in browser that fills the track table through /recent, with a
\* catalog that yields every default mood for the first track and three of them
\* for the others, and edits its mood overrides through
\* /update-mood with valid, invalid and missing fields.
MoodGains == {4, 1, 0, -2, -6, -10, -14}
MoodCatalog(spotify_id) ==
    {[search |-> "empty", metrics |-> "-", gain |-> 0]}
        \cup {[search |-> "found", metrics |-> "gain", gain |-> g] :
                  g \in IF spotify_id = 1 THEN MoodGains ELSE {4, -10}}
MoodBatches == {<<Item(s, datetime(2024, 5, 2, 1))>> : s \in SpotifyIds}
MoodLabels == Range(get_available_moods) \cup {"Unknown", "Bored", ""}
MoodInputs ==
    {[NoInput EXCEPT !.form = "json", !.track_id = t, !.mood = m] :
         t \in 0..(MaxCatalog + 1), m \in MoodLabels}
\* What the browser sends: for a track id of the catalog one label, Unknown or
\* a default mood the page shows for a stored track; for the first track also a
\* word outside the set or no mood; and a label with no track id or with an id
\* beyond the catalog.
MoodRequests ==
    {inp \in MoodInputs :
        \/ /\ inp.track_id \in 1..MaxCatalog
           /\ inp.mood \in {"Angry", "Unknown"} \cup {tracks[t].mood : t \in 1..Len(tracks)}
        \/ inp.track_id = 1 /\ inp.mood \in {"Bored", ""}
        \/ inp.track_id \in {0, MaxCatalog + 1} /\ inp.mood = "Angry"}

MoodRecent == \E provider \in ProvidersAsked(Browser) : Guard(Browser, "recent", provider, NoInput)
MoodRecentFetch == \E items \in MoodBatches : RecentFetch(Browser, "ok", items)
MoodTrackLookup == TrackLookup(Browser)
MoodTrackCreate ==
    /\ pc[Browser] = "create"
    /\ \E answer \in MoodCatalog(req[Browser].items[req[Browser].idx].track) :
           TrackCreate(Browser, answer)
MoodFinish == Finish(Browser)
MoodUpdate ==
    \E provider \in ProvidersAsked(Browser), inp \in MoodRequests :
        Guard(Browser, "update_mood", provider, inp)

NextMood ==
    \/ MoodRecent
    \/ MoodRecentFetch
    \/ MoodTrackLookup
    \/ MoodTrackCreate
    \/ MoodFinish
    \/ MoodUpdate

SpecMood == InitLoggedIn /\ [][NextMood]_vars

\* One logged-in browser whose /recent meets tracks of every gain between
\* -GainBelow and GainAbove, and tracks whose metrics carry no gain.
ClassifierGains == (0 - GainBelow)..GainAbove
ClassifierCatalog ==
    {[search |-> "found", metrics |-> "no_gain", gain |-> 0]}
        \cup {[search |-> "found", metrics |-> "gain", gain |-> g] : g \in ClassifierGains}

ClassifyRecent ==
    \E provider \in ProvidersAsked(Browser) : Guard(Browser, "recent", provider, NoInput)
ClassifyRecentFetch == \E items \in MoodBatches : RecentFetch(Browser, "ok", items)
ClassifyTrackLookup == TrackLookup(Browser)
ClassifyTrackCreate == \E answer \in ClassifierCatalog : TrackCreate(Browser, answer)
ClassifyFinish == Finish(Browser)

NextClassify ==
    \/ ClassifyRecent
    \/ ClassifyRecentFetch
    \/ ClassifyTrackLookup
    \/ ClassifyTrackCreate
    \/ ClassifyFinish

SpecClassify == InitLoggedIn /\ [][NextClassify]_vars

\* Logged-in clients, one request at a time. Each user's plays come in the order
\* of GridHistory: four plays on 2 May 2024 (three of track 1, one of track 2),
\* one in the last hour of May and one in the first hour of June; /recent hands
\* over the user's next play. The first browser also edits the mood of track 1
\* and asks for monthly grids.
GridHistory ==
    <<Item(1, datetime(2024, 5, 2, 1)), Item(2, datetime(2024, 5, 2, 1)),
      Item(1, datetime(2024, 5, 2, 2)), Item(1, datetime(2024, 5, 2, 3)),
      Item(2, datetime(2024, 5, 31, 23)), Item(1, datetime(2024, 6, 1, 0))>>

\* The catalog knows track 1 with a gain of 0, and track 2 with a gain of -12 or
\* not at all.
GridCatalog(spotify_id) ==
    IF spotify_id = 1
    THEN {[search |-> "found", metrics |-> "gain", gain |-> 0]}
    ELSE {[search |-> "found", metrics |-> "gain", gain |-> -12],
          [search |-> "empty", metrics |-> "-", gain |-> 0]}

PlaysSaved(user_id) == Cardinality({l \in BagToSet(listens) : l.user_id = user_id})
NextPlays(user_id) ==
    IF PlaysSaved(user_id) < Len(GridHistory)
    THEN <<GridHistory[PlaysSaved(user_id) + 1]>>
    ELSE <<>>

GridMonths ==
    {<<2024, 5>>, <<2024, 6>>, <<2024, 2>>, <<1900, 2>>, <<2000, 2>>, <<2024, 12>>,
     <<MAXYEAR, 12>>, <<2024, 13>>}
GridRequests ==
    {[NoInput EXCEPT !.form = "POST", !.year = ym[1], !.month = ym[2]] : ym \in GridMonths}
GridEdits ==
    {[NoInput EXCEPT !.form = "json", !.track_id = 1, !.mood = m] : m \in {"Happy", "Sad"}}

OneAtATime(c) == \A d \in Clients \ {c} : pc[d] = "idle"

GridRecent ==
    \E c \in Clients : \E provider \in ProvidersAsked(c) :
        OneAtATime(c) /\ Guard(c, "recent", provider, NoInput)
GridRecentFetch == \E c \in Clients : RecentFetch(c, "ok", NextPlays(req[c].user))
GridTrackLookup == \E c \in Clients : TrackLookup(c)
GridTrackCreate ==
    \E c \in Clients :
        /\ pc[c] = "create"
        /\ \E answer \in GridCatalog(req[c].items[req[c].idx].track) : TrackCreate(c, answer)
GridFinish == \E c \in Clients : Finish(c)
GridUpdate ==
    \E provider \in ProvidersAsked(Browser), inp \in GridEdits :
        OneAtATime(Browser) /\ Guard(Browser, "update_mood", provider, inp)
GridMonthly ==
    \E provider \in ProvidersAsked(Browser), inp \in GridRequests :
        OneAtATime(Browser) /\ Guard(Browser, "monthly", provider, inp)

NextGrid ==
    \/ GridRecent
    \/ GridRecentFetch
    \/ GridTrackLookup
    \/ GridTrackCreate
    \/ GridFinish
    \/ GridUpdate
    \/ GridMonthly

SpecGrid == InitLoggedIn /\ [][NextGrid]_vars

\* Logged-in clients whose /update-mood requests overlap. The first browser
\* fills the track table through /recent while nothing else is in flight; then
\* every client edits the mood of a stored track, to a label that may or may not
\* be the track's default.
EditInputs ==
    {[NoInput EXCEPT !.form = "json", !.track_id = t, !.mood = m] :
         t \in 1..Len(tracks), m \in {"Happy", "Angry"}}

EditRecent ==
    \E provider \in ProvidersAsked(Browser) :
        OneAtATime(Browser) /\ Guard(Browser, "recent", provider, NoInput)
EditRecentFetch == \E items \in MoodBatches : RecentFetch(Browser, "ok", items)
EditTrackLookup == TrackLookup(Browser)
EditTrackCreate == \E answer \in SmallCatalog : TrackCreate(Browser, answer)
EditFinish == Finish(Browser)
EditLoad ==
    \E c \in Clients : \E provider \in ProvidersAsked(c), inp \in EditInputs :
        /\ pc[Browser] \in {"idle", "view"}
        /\ UpdateMoodLoad(c, provider, inp)
EditView == \E c \in Clients : UpdateMoodView(c)

NextEdit ==
    \/ EditRecent
    \/ EditRecentFetch
    \/ EditTrackLookup
    \/ EditTrackCreate
    \/ EditFinish
    \/ EditLoad
    \/ EditView

SpecEdit == InitLoggedIn /\ [][NextEdit]_vars

----------------------------------------------------------------------------
(* The session/auth guard: claims C1 - C4, checked under Spec *)

GuardRedirect(c) == resp[c].by = "guard" /\ resp[c].status = "redirect_login"

\* C1: a guarded request whose session names an existing user with an expired
\* (or absent) credential expiry, and whose refresh fails, ends with the session
\* cleared and a redirect to /login by the guard; the view is not invoked and no
\* streaming-API client is created.
C1_RefreshFailureRedirects ==
    \A c \in Clients :
        (glog[c].user_found /\ glog[c].was_expired /\ glog[c].refresh = "failed")
            => /\ session[c] = EmptySession
               /\ GuardRedirect(c)
               /\ ~glog[c].invoked
               /\ ~glog[c].client

\* The provider rejected the refresh of an expired credential that decrypts.
C1_Witness ==
    \E c \in Clients :
        /\ encKeySet
        /\ glog[c].user_found /\ glog[c].was_expired /\ glog[c].refresh = "failed"
        /\ resp[c].cause = "refresh_failed"

\* C2: a wrapped view is invoked only when the session's user id resolves to an
\* existing User row whose credential is not expired at the invocation (it was
\* valid, or a refresh just succeeded), and the user handed to the view is the
\* one the session names.
C2_ViewOnlyWhenAuthorized ==
    \A c \in Clients :
        glog[c].invoked
            => /\ glog[c].session_user # 0
               /\ glog[c].user_found
               /\ ~glog[c].expired_at_invoke
               /\ glog[c].was_expired => glog[c].refresh = "ok"
               /\ glog[c].view_user = glog[c].session_user

\* A view invoked for the second user after a refresh that succeeded.
C2_Witness ==
    \E c \in Clients :
        /\ glog[c].invoked /\ glog[c].was_expired /\ glog[c].refresh = "ok"
        /\ glog[c].view_user = 2

\* C3 as stated: every Unauthenticated answer of the guard leaves the session
\* fully cleared.
C3_EveryFailureClearsSession ==
    \A c \in Clients : GuardRedirect(c) => session[c] = EmptySession

\* C3 as amended: after an Unauthenticated answer of the guard the session holds
\* no user id and no token material; it is fully cleared in every case but the
\* missing user id, where the guard only redirects.
C3_NoCredentialLeftAfterFailure ==
    \A c \in Clients :
        GuardRedirect(c)
            => /\ session[c].user_id = 0
               /\ ~session[c].token_info
               /\ ~session[c].logged_in
               /\ resp[c].cause # "no_user_id" => session[c] = EmptySession

\* The guard met a session whose user row is gone (the database was reset) and
\* cleared it.
C3_Witness ==
    \E c \in Clients :
        /\ GuardRedirect(c)
        /\ resp[c].cause = "no_user_row"
        /\ glog[c].session_user # 0
        /\ session[c] = EmptySession

\* C4: when the streaming-API call of /recent raises, the guard catches it, the
\* session is cleared and the answer is a redirect to /login.
C4_ApiErrorClearsSession ==
    \A c \in Clients :
        (resp[c].route = "recent" /\ resp[c].cause = "spotify_error")
            => /\ resp[c].status = "redirect_login"
               /\ resp[c].by = "guard"
               /\ session[c] = EmptySession

----------------------------------------------------------------------------
(* The recorder and the track resolver: claims C5 - C10 *)

Stored(spotify_id) == \E i \in 1..Len(tracks) : tracks[i].spotify_id = spotify_id
RowsOf(spotify_id) == {i \in 1..Len(tracks) : tracks[i].spotify_id = spotify_id}
Returned(c) == pc[c] = "idle" /\ resp[c].route = "recent" /\ resp[c].status = "ok"

\* C5: no two committed Listen rows share (user_id, track_id, played_at),
\* whatever the users, the batches (a batch may repeat an event) and the
\* interleaving of the calls. Checked under SpecConc.
C5_ListenUnique ==
    \A row \in BagToSet(listens) : CopiesIn(row, listens) = 1

\* A call returned whose batch holds the same event twice, and saved it once,
\* while another request failed on the uniqueness constraint.
C5_Witness ==
    /\ \E c \in Clients :
           /\ Returned(c)
           /\ Len(req[c].items) = 2
           /\ req[c].items[1] = req[c].items[2]
           /\ resp[c].saved = 1
    /\ \E c \in Clients : resp[c].cause = "IntegrityError unique_listen"

\* C6: a call of save_listening_history that repeats, right after a call that
\* returned, the same user and batch returns 0 and changes neither the Listen
\* rows nor the Track rows. Checked under SpecSeq.
C6_ReplayIsNoop ==
    [][\A c \in Clients :
           (req[c].again /\ pc[c] \in {"loop", "create"})
               => /\ tracks' = tracks
                  /\ listens' = listens
                  /\ pc'[c] = "idle" => (resp'[c].status = "ok" /\ resp'[c].saved = 0)]_vars

\* A replay of a batch of two different events returned.
C6_Witness ==
    \E c \in Clients :
        /\ Returned(c)
        /\ req[c].again
        /\ Len(req[c].items) = 2
        /\ req[c].items[1] # req[c].items[2]
        /\ BagCardinality(listens) >= 2

\* C7: two concurrent calls for the same user on batches that share a triple: no
\* request ends in the redirect of an IntegrityError of unique_listen (the
\* loser's insert is dropped silently). Checked under SpecConc.
C7_DuplicateDroppedSilently ==
    \A c \in Clients :
        resp[c].route = "recent" => resp[c].cause # "IntegrityError unique_listen"

\* C8: no Listen row a call added is durable before the call's loop over the
\* batch has finished: no commit inside the loop. Checked under SpecConc.
C8_CommitOncePerBatch ==
    \A c \in Clients : req[c].early_commits = EmptyBag

\* C9: once a Track is stored for an external id, no later step changes a
\* stored row, stores a second row for the id or asks the catalog about it, and
\* a get_or_create_track call for the id returns the stored row without
\* creating. Checked under SpecSeq (every catalog answer is on offer).
C9_StoredTrackIsFinal ==
    [][\A s \in SpotifyIds :
           Stored(s)
               => /\ \A i \in 1..Len(tracks) : Len(tracks') >= i /\ tracks'[i] = tracks[i]
                  /\ RowsOf(s)' = RowsOf(s)
                  /\ Cardinality(RowsOf(s)) = 1
                  /\ deezer_calls'[s] = deezer_calls[s]
                  /\ \A c \in Clients :
                         (InLoop(c) /\ req[c].items[req[c].idx].track = s /\ req'[c] # req[c])
                             => /\ req'[c].track \in RowsOf(s)
                                /\ ~req'[c].created
                                /\ req'[c].answer = NoAnswer]_vars

\* get_or_create_track returned, without creating, a track that an earlier call
\* stored with a gain of the catalog.
C9_Witness ==
    \E c \in Clients :
        /\ pc[c] = "loop"
        /\ req[c].track # 0
        /\ ~req[c].created
        /\ ~IsNone(tracks[req[c].track].gain)
        /\ deezer_calls[tracks[req[c].track].spotify_id] = 1

\* The default mood lines 90-108 owe a new track for a catalog answer.
DefaultMoodFor(answer) ==
    IF answer.search = "found" /\ answer.metrics = "gain"
    THEN classify_mood(Some(answer.gain))
    ELSE "Unknown"

\* C10: for an external id not yet stored, get_or_create_track stores and
\* returns a new Track for every answer of the catalog: Unknown when the search
\* fails or is empty or the metrics fail or carry no gain, classify_mood of the
\* gain otherwise; the row is committed when the call returns. Checked under
\* SpecSeq.
C10_NewTrackStored ==
    \A c \in Clients :
        /\ (pc[c] = "create" /\ ~Stored(req[c].items[req[c].idx].track))
               => \A answer \in CatalogAnswers : ENABLED TrackCreate(c, answer)
        /\ req[c].created
               => /\ req[c].track \in 1..Len(tracks)
                  /\ tracks[req[c].track].spotify_id = req[c].items[req[c].idx - 1].track
                  /\ tracks[req[c].track].mood = DefaultMoodFor(req[c].answer)
                  /\ tracks[req[c].track].gain =
                         (IF req[c].answer.search = "found" /\ req[c].answer.metrics = "gain"
                          THEN Some(req[c].answer.gain) ELSE None)

\* A new track stored with the Unknown default although the metrics request
\* failed after a successful search.
C10_Witness ==
    \E c \in Clients :
        /\ req[c].created
        /\ req[c].answer.search = "found"
        /\ req[c].answer.metrics = "error"
        /\ tracks[req[c].track].mood = "Unknown"
        /\ ~IsNone(tracks[req[c].track].deezer_id)

\* C11: over any execution, two concurrent requests for the same not yet stored
\* external id included, the catalog is asked at most once per external id, the
\* id has at most one Track row, and no request ends in the error of the
\* tracks.spotify_id constraint. Checked under SpecConc.
C11_TrackResolvedOnce ==
    /\ \A s \in SpotifyIds : deezer_calls[s] <= 1 /\ Cardinality(RowsOf(s)) <= 1
    /\ \A c \in Clients : resp[c].cause # "IntegrityError tracks.spotify_id"

----------------------------------------------------------------------------
(* The mood override store: claims C12 - C14 and C20, checked under SpecMood *)

UserRows == 1..Len(users)
TrackRows == 1..Len(tracks)
HasOverride(u, track_id) == ToString(track_id) \in DOMAIN get_mood_overrides(u)

\* The last request of c was a /update-mood that reached the view.
Updated(c) == pc[c] = "idle" /\ glog[c].route = "update_mood" /\ glog[c].invoked

\* C12: after update_user_mood_override(u, t.id, m) with m the default mood of
\* the stored track t, whatever that default is (Unknown too) and whatever
\* override u had, u has no override entry for t and u's effective mood of t is
\* the default.
C12_DefaultMoodRemovesOverride ==
    \A c \in Clients :
        (/\ Updated(c)
         /\ glog[c].inp.track_id \in TrackRows
         /\ glog[c].inp.mood = tracks[glog[c].inp.track_id].mood)
            => /\ ~HasOverride(users[glog[c].view_user], glog[c].inp.track_id)
               /\ get_track_mood(users[glog[c].view_user], glog[c].inp.track_id)
                      = tracks[glog[c].inp.track_id].mood

\* C13: in every reachable state, for every user u, stored track t and label m
\* of the fixed set other than t's default, update_user_mood_override(u, t.id, m)
\* succeeds and leaves u's effective mood of t at m, whatever override was there;
\* and every track without an entry has its default as effective mood. The last
\* /update-mood request answered accordingly.
C13_DeviationIsEffective ==
    /\ \A i \in UserRows, t \in TrackRows :
           \A m \in Range(get_available_moods) \ {tracks[t].mood} :
               LET r == update_user_mood_override(users[i], t, m)
               IN  /\ r.ok
                   /\ LET overrides == get_mood_overrides(r.user)
                      IN  ToString(t) \in DOMAIN overrides /\ overrides[ToString(t)] = m
                   /\ \A t2 \in TrackRows :
                          LET before == get_mood_overrides(users[i])
                              after == get_mood_overrides(r.user)
                              eff == IF ToString(t2) \in DOMAIN after
                                     THEN after[ToString(t2)] ELSE tracks[t2].mood
                          IN  /\ ~(ToString(t2) \in DOMAIN after) => eff = tracks[t2].mood
                              /\ t2 = t => eff = m
    /\ \A c \in Clients :
           (/\ Updated(c)
            /\ glog[c].inp.track_id \in TrackRows
            /\ glog[c].inp.mood \in Range(get_available_moods)
            /\ glog[c].inp.mood # tracks[glog[c].inp.track_id].mood)
               => /\ resp[c].status = "ok"
                  /\ get_track_mood(users[glog[c].view_user], glog[c].inp.track_id)
                         = glog[c].inp.mood
                  /\ \A t2 \in TrackRows :
                         ~HasOverride(users[glog[c].view_user], t2)
                             => get_track_mood(users[glog[c].view_user], t2) = tracks[t2].mood

\* A deviation was stored for one track while another stored track has no entry.
C13_Witness ==
    \E c \in Clients :
        /\ Updated(c)
        /\ resp[c].status = "ok"
        /\ glog[c].inp.track_id \in TrackRows
        /\ glog[c].inp.mood # tracks[glog[c].inp.track_id].mood
        /\ get_track_mood(users[glog[c].view_user], glog[c].inp.track_id) = glog[c].inp.mood
        /\ \E t2 \in TrackRows : ~HasOverride(users[glog[c].view_user], t2)

\* The request carries a mood outside the fixed set or the id of no stored track.
InvalidInput(inp) ==
    inp.mood \notin Range(get_available_moods) \/ inp.track_id \notin TrackRows
MissingInput(inp) == inp.track_id = 0 \/ inp.mood = ""

\* C14: update_user_mood_override with a mood outside the fixed set or a track
\* id of no stored Track returns False and changes nothing; /update-mood then
\* answers 400 (missing fields, or invalid mood or track) and the step changes
\* no user row, no Track row and no Listen row.
C14_InvalidOverrideRejected ==
    /\ [](\A i \in UserRows : \A inp \in MoodInputs :
              InvalidInput(inp)
                  => LET r == update_user_mood_override(users[i], inp.track_id, inp.mood)
                         v == ViewResult("update_mood", inp, users[i])
                     IN  /\ ~r.ok
                         /\ r.user = users[i]
                         /\ v.status = "bad_request"
                         /\ v.cause = (IF MissingInput(inp) THEN "missing" ELSE "invalid")
                         /\ v.user = users[i])
    /\ [][\A c \in Clients :
              (/\ pc[c] = "idle"
               /\ Updated(c)'
               /\ InvalidInput(glog'[c].inp))
                  => /\ users' = users
                     /\ tracks' = tracks
                     /\ listens' = listens
                     /\ resp'[c].status = "bad_request"]_vars

\* A request for a mood outside the set was answered 400 while the user holds
\* an override and a track is stored.
C14_Witness ==
    \E c \in Clients :
        /\ Updated(c)
        /\ glog[c].inp.mood = "Bored"
        /\ glog[c].inp.track_id \in TrackRows
        /\ resp[c].status = "bad_request"
        /\ resp[c].cause = "invalid"
        /\ \E t \in TrackRows : HasOverride(users[glog[c].view_user], t)

\* C20: in every reachable state no override entry of any user equals the default
\* mood of its track, and every override value is one of the seven labels of
\* get_available_moods.
C20_OverridesAreDeviations ==
    \A i \in UserRows :
        LET overrides == get_mood_overrides(users[i])
        IN  \A k \in DOMAIN overrides :
                /\ overrides[k] \in Range(get_available_moods)
                /\ \E t \in TrackRows : ToString(t) = k /\ tracks[t].mood # overrides[k]

\* A user holds overrides for two tracks, and the last request asked for a
\* track's own default mood.
C20_Witness ==
    \E c \in Clients :
        /\ Updated(c)
        /\ resp[c].status = "ok"
        /\ glog[c].inp.track_id \in TrackRows
        /\ glog[c].inp.mood = tracks[glog[c].inp.track_id].mood
        /\ \E i \in UserRows : Cardinality(DOMAIN get_mood_overrides(users[i])) = 1
        /\ Len(tracks) = 2

----------------------------------------------------------------------------
(* The mood classifier: claim C15, checked under SpecClassify *)

\* The buckets as the table states them, each closed above and open below.
BucketLabel(g) ==
    CASE g > 3 -> "Angry"
      [] 0 < g /\ g <= 3 -> "Energetic"
      [] -2 < g /\ g <= 0 -> "Happy"
      [] -6 < g /\ g <= -2 -> "Chill"
      [] -10 < g /\ g <= -6 -> "Calm"
      [] -14 < g /\ g <= -10 -> "Sad"
      [] g <= -14 -> "Depressed"

\* The place of a label from the quietest to the loudest.
OrdinalRank(label) ==
    CHOOSE r \in 1..7 : get_available_moods[8 - r] = label

\* C15: classify_mood answers every gain and a missing gain: Unknown for no
\* gain, else the label of the table, a bound belonging to the lower bucket; the
\* rank of the label never falls as the gain rises; and every stored track
\* carries the label of its gain.
C15_ClassifierTable ==
    /\ classify_mood(None) = "Unknown"
    /\ \A g \in ClassifierGains : classify_mood(Some(g)) = BucketLabel(g)
    /\ \A g1, g2 \in ClassifierGains :
           g1 < g2 => OrdinalRank(classify_mood(Some(g1))) <= OrdinalRank(classify_mood(Some(g2)))
    /\ \A t \in TrackRows :
           tracks[t].mood = (IF IsNone(tracks[t].gain) THEN "Unknown"
                             ELSE BucketLabel(Val(tracks[t].gain)))

\* Two tracks were stored with gains on bounds of the table, each in its lower
\* bucket.
C15_Witness ==
    /\ Len(tracks) = 2
    /\ tracks[1].gain = Some(-14) /\ tracks[1].mood = "Depressed"
    /\ tracks[2].gain = Some(3) /\ tracks[2].mood = "Energetic"

----------------------------------------------------------------------------
(* The monthly grid: claims C16 - C19, checked under SpecGrid *)

\* The step is the answer of /monthly to a POST of c.
MonthlyAnswered(c) ==
    /\ pc[c] = "idle"
    /\ glog'[c].route = "monthly"
    /\ glog'[c].invoked
    /\ glog'[c].inp.form = "POST"
    /\ (glog'[c] # glog[c] \/ resp'[c] # resp[c])

\* The last request of c was a POST of /monthly that reached the view.
MonthlyAsked(c) ==
    pc[c] = "idle" /\ glog[c].route = "monthly" /\ glog[c].invoked /\ glog[c].inp.form = "POST"

\* A month of the calendar: a year from 1 to MAXYEAR and a month from 1 to 12.
ValidMonth(year, month) == year \in 1..MAXYEAR /\ month \in 1..12

\* The days of the months by the calendar's table.
DaysInMonth(year, month) ==
    CASE month \in {1, 3, 5, 7, 8, 10, 12} -> 31
      [] month \in {4, 6, 9, 11} -> 30
      [] month = 2 /\ year % 4 = 0 /\ year % 100 # 0 -> 29
      [] month = 2 /\ year % 400 = 0 -> 29
      [] OTHER -> 28

\* The user's listens whose played_at falls on the day.
ListensOn(user_id, day) ==
    {l \in BagToSet(listens) : l.user_id = user_id /\ strftime(l.played_at) = day}

\* C16: for every valid (year, month) the POST of /monthly is answered with a
\* grid of exactly days_in_month entries, entry d keyed by the YYYY-MM-DD string
\* of day d, whatever the user's listens.
C16_GridComplete ==
    \A c \in Clients :
        (MonthlyAsked(c) /\ ValidMonth(glog[c].inp.year, glog[c].inp.month))
            => /\ resp[c].status = "ok"
               /\ Len(resp[c].body) = DaysInMonth(glog[c].inp.year, glog[c].inp.month)
               /\ \A d \in 1..Len(resp[c].body) :
                      resp[c].body[d].day =
                          strftime(datetime(glog[c].inp.year, glog[c].inp.month, d, 0))

\* An entry of a grid of the user agrees with the user's listens of its day.
EntryCounts(user_id, entry) ==
    /\ entry.count = Cardinality(ListensOn(user_id, entry.day))
    /\ entry.mood = app_literal("No Data") <=> ListensOn(user_id, entry.day) = {}
    /\ entry.mood = app_literal("No Data") => entry.count = 0

\* C17: in every grid the handler builds, an entry is labelled No Data with
\* count 0 exactly when the user has no listen on that day, and every count is
\* the number of that user's listens on the day, other users' listens left out,
\* for the grid each POST of /monthly is answered with.
C17_NoDataIffNoListens ==
    [][\A c \in Clients :
           (MonthlyAnswered(c) /\ resp'[c].status = "ok")
               => /\ listens' = listens
                  /\ resp'[c].body # <<>>
                  /\ \A d \in 1..Len(resp'[c].body) :
                         EntryCounts(glog'[c].view_user, resp'[c].body[d])]_vars

\* The grid of May 2024 was answered to a user with four listens on 2 May and
\* none on 1 May, while another user has listens in that month.
C17_Witness ==
    \E c \in Clients :
        /\ MonthlyAsked(c)
        /\ resp[c].status = "ok"
        /\ Len(resp[c].body) = 31
        /\ resp[c].body[2].count = 4
        /\ resp[c].body[1].count = 0
        /\ resp[c].body[1].mood = app_literal("No Data")
        /\ Cardinality(ListensOn(glog[c].view_user, "2024-05-02")) = 4
        /\ \E l \in BagToSet(listens) : l.user_id # glog[c].view_user

\* The effective moods of the user's listens of a day, and how often each occurs.
MoodsOn(user_id, day) ==
    SeqOf({[listen |-> l, mood |-> get_track_mood(users[user_id], l.track_id)] :
              l \in ListensOn(user_id, day)})
TimesIn(moods, m) == Cardinality({i \in 1..Len(moods) : moods[i].mood = m})
FirstSeen(moods, m) == CHOOSE i \in 1..Len(moods) : moods[i].mood = m /\ \A j \in 1..(i - 1) : moods[j].mood # m

\* The most frequent mood, the first seen of the most frequent ones.
ModeOf(moods) ==
    CHOOSE m \in {moods[i].mood : i \in 1..Len(moods)} :
        \A n \in {moods[i].mood : i \in 1..Len(moods)} :
            \/ TimesIn(moods, m) > TimesIn(moods, n)
            \/ TimesIn(moods, m) = TimesIn(moods, n) /\ FirstSeen(moods, m) <= FirstSeen(moods, n)

\* The entry carries the label of the word, in either spelling.
LabelledAs(entry, word) == entry.mood \in {word, app_literal(word)}

\* C18: a day with listens is labelled with the most frequent effective mood of
\* the day's listens and counts them: 3 Happy and 1 Sad give Happy, count 4.
C18_DominantIsMode ==
    [][\A c \in Clients :
           (MonthlyAnswered(c) /\ resp'[c].status = "ok")
               => \A d \in 1..Len(resp'[c].body) :
                      LET entry == resp'[c].body[d]
                          moods == MoodsOn(glog'[c].view_user, entry.day)
                      IN  moods # <<>>
                              => /\ LabelledAs(entry, ModeOf(moods))
                                 /\ entry.count = Len(moods)]_vars

\* The label whose weight is closest to the average weight of the words.
ClosestToAverage(moods) ==
    LET keys == [i \in 1..Len(moods) |-> app_literal(moods[i].mood)]
        snapped == closest_score(keys)
    IN  CHOOSE word \in Range(get_available_moods) \cup {"Unknown"} : app_literal(word) = snapped

\* C19: a day with listens is labelled with the label whose weight is closest
\* to the average weight of all the day's effective moods, as classify_mood and
\* the override store produce them, ties to the earlier label; a day whose
\* listens all carry one label is labelled with it.
C19_AverageOfEffectiveMoods ==
    [][\A c \in Clients :
           (MonthlyAnswered(c) /\ resp'[c].status = "ok")
               => \A d \in 1..Len(resp'[c].body) :
                      LET entry == resp'[c].body[d]
                          moods == MoodsOn(glog'[c].view_user, entry.day)
                      IN  moods # <<>>
                              => /\ LabelledAs(entry, ClosestToAverage(moods))
                                 /\ (\A i \in 1..Len(moods) : moods[i].mood = moods[1].mood)
                                        => LabelledAs(entry, moods[1].mood)]_vars

----------------------------------------------------------------------------
(* Overlapping override edits: claim C21, checked under SpecEdit *)

\* The last request of c was a /update-mood that stored a label of the set
\* other than the track's default.
EditStored(c) ==
    /\ Updated(c)
    /\ resp[c].route = "update_mood" /\ resp[c].status = "ok"
    /\ glog[c].inp.track_id \in TrackRows
    /\ glog[c].inp.mood \in Range(get_available_moods)
    /\ glog[c].inp.mood # tracks[glog[c].inp.track_id].mood

\* C21: when a /update-mood request of client d completes, having stored a
\* valid non-default mood for a track, while the override map of the same user
\* holds the entry that a completed request of another client c stored for
\* another track, the map holds both entries afterwards, whether d's request
\* began before or after c's ended.
C21_ConcurrentEditsKept ==
    [][\A c \in Clients, d \in Clients :
          (/\ c # d
           /\ pc[d] = "view" /\ pc'[d] = "idle"
           /\ EditStored(c)
           /\ EditStored(d)'
           /\ glog[c].view_user = glog[d].view_user
           /\ glog[c].inp.track_id # glog[d].inp.track_id
           /\ HasOverride(users[glog[c].view_user], glog[c].inp.track_id))
              => /\ HasOverride(users'[glog[c].view_user], glog[c].inp.track_id)
                 /\ HasOverride(users'[glog[c].view_user], glog[d].inp.track_id)]_vars

----------------------------------------------------------------------------
(* The credential round trip: claim C22, checked under Spec *)

\* What User.get_access_token / get_refresh_token give back for a stored
\* column holds the plaintext that set_tokens was given.
RoundTrips(encrypted_token, plain) ==
    /\ ~IsNone(encrypted_token)
    /\ Val(encrypted_token).key \in {"env", "random"}
    /\ ~DecryptRaises(encrypted_token)
    /\ decrypt_token(encrypted_token) = Some(plain)

\* C22: with ENCRYPTION_KEY set or unset, every user row that set_tokens wrote
\* holds its two tokens as ciphertexts that get_access_token and
\* get_refresh_token decrypt to the plaintexts; and a guarded request that finds
\* the row of its session's user with a credential not yet expired reaches the
\* wrapped view.
C22_CredentialRoundTrip ==
    /\ \A i \in UserRows :
           /\ RoundTrips(users[i].access_token, AccessPlain)
           /\ RoundTrips(users[i].refresh_token, RefreshPlain)
    /\ \A c \in Clients :
           (glog[c].route # "none" /\ glog[c].user_found /\ ~glog[c].was_expired)
               => glog[c].invoked /\ resp[c].cause # "client_error"

====
